---- MODULE Spec2Model ----
(***************************************************************************)
(* Macro expansion engine of the lacc preprocessor                         *)
(* (src/preprocessor/macro.c): macro table, expansion stack, token-paste   *)
(* engine, stringification, argument reader and the recursive expander.    *)
(*                                                                         *)
(* A token list is a sequence of token records ending with the END         *)
(* sentinel, exactly as the C arrays are.  Spellings are sequences of      *)
(* one-character strings so that pasting and re-tokenizing are computed.   *)
(***************************************************************************)
EXTENDS Integers, Sequences, FiniteSets, TLC

VARIABLES
    table,          \* macro_hash_table: name -> struct macro
    line,           \* current_file_line()
    path,           \* current_file_path()
    expand_stack,   \* expand_stack: names of the macros being expanded
    frames,         \* call stack of expand / expand_macro activations
    input,          \* the list (or macro) handed to the operation under test
    result,         \* lists returned to the driver, in order
    status,         \* "running", "returned", "fatal", "crashed", "assert"
    diag,           \* diagnostics printed by error(), in order
    hist            \* record of the last completed operation

vars == <<table, line, path, expand_stack, frames, input, result, status,
          diag, hist>>

(***************************************************************************)
(* Bounds of the model.                                                    *)
(***************************************************************************)
MaxPasteLen == 5
MaxArgLen == 5
MaxPieces == 2
MaxOverrun == 1
MaxLine == 2

(***************************************************************************)
(* Characters and tokens.                                                  *)
(***************************************************************************)
Letters ==
    {"a","b","c","d","e","f","g","h","i","j","k","l","m","n","o","p","q",
     "r","s","t","u","v","w","x","y","z",
     "A","B","C","D","E","F","G","H","I","J","K","L","M","N","O","P","Q",
     "R","S","T","U","V","W","X","Y","Z","_"}

Digits == {"0","1","2","3","4","5","6","7","8","9"}

DigitVal ==
    ("0" :> 0) @@ ("1" :> 1) @@ ("2" :> 2) @@ ("3" :> 3) @@ ("4" :> 4) @@
    ("5" :> 5) @@ ("6" :> 6) @@ ("7" :> 7) @@ ("8" :> 8) @@ ("9" :> 9)

Take(s, n) == SubSeq(s, 1, n)

Drop(s, n) == SubSeq(s, n + 1, Len(s))

\* struct token: kind, spelling, numeric payload and its type, whitespace.
Tok(kind, str, ws) ==
    [token |-> kind, str |-> str, val |-> 0, ntype |-> "", ws |-> ws]

Num(str, val, ntype, ws) ==
    [token |-> "NUMBER", str |-> str, val |-> val, ntype |-> ntype, ws |-> ws]

Param(k) ==
    [token |-> "PARAM", str |-> <<>>, val |-> k, ntype |-> "", ws |-> 0]

END == Tok("END", <<>>, 0)

Ident(str) == Tok("IDENTIFIER", str, 0)

Punct(c) == Tok(c, <<c>>, 0)

PASTE == Tok("TOKEN_PASTE", <<"#", "#">>, 0)

(***************************************************************************)
(* The tokenizer (collaborator): decode one token from a character         *)
(* sequence; rest is what endptr is left pointing at.                      *)
(***************************************************************************)
RECURSIVE SpanLen(_, _)
SpanLen(s, cls) ==
    IF s # <<>> /\ Head(s) \in cls THEN 1 + SpanLen(Tail(s), cls) ELSE 0

RECURSIVE NumVal(_)
NumVal(ds) ==
    IF ds = <<>> THEN 0
    ELSE NumVal(Take(ds, Len(ds) - 1)) * 10 + DigitVal[ds[Len(ds)]]

tokenize(data) ==
    LET sp == SpanLen(data, {" "})
        s  == Drop(data, sp)
    IN  IF s = <<>> THEN
            [tok |-> Tok("END", <<>>, sp), rest |-> <<>>]
        ELSE IF Head(s) \in Letters THEN
            LET n == SpanLen(s, Letters \cup Digits)
            IN  [tok |-> Tok("IDENTIFIER", Take(s, n), sp), rest |-> Drop(s, n)]
        ELSE IF Head(s) \in Digits THEN
            LET n == SpanLen(s, Digits)
                r == Drop(s, n)
            IN  IF r # <<>> /\ Head(r) \in {"L", "l"} THEN
                    [tok |-> Num(Take(s, n + 1), NumVal(Take(s, n)), "long", sp),
                     rest |-> Tail(r)]
                ELSE IF r # <<>> /\ Head(r) \in {"U", "u"} THEN
                    [tok |-> Num(Take(s, n + 1), NumVal(Take(s, n)), "unsigned", sp),
                     rest |-> Tail(r)]
                ELSE
                    [tok |-> Num(Take(s, n), NumVal(Take(s, n)), "int", sp),
                     rest |-> r]
        ELSE IF Head(s) = "#" /\ Len(s) >= 2 /\ s[2] = "#" THEN
            [tok |-> Tok("TOKEN_PASTE", <<"#", "#">>, sp), rest |-> Drop(s, 2)]
        ELSE
            [tok |-> Tok(Head(s), <<Head(s)>>, sp), rest |-> Tail(s)]

\* tokstr: the spelling of a token.
tokstr(t) == t.str

\* str_cmp: 0 iff the interned strings are the same.
str_cmp(a, b) == IF a = b THEN 0 ELSE 1

\* type_equal on the types of number tokens.
type_equal(a, b) == a = b

(***************************************************************************)
(* tok_cmp: 0 iff the tokens are equal (leading whitespace is not looked   *)
(* at).                                                                    *)
(***************************************************************************)
tok_cmp(a, b) ==
    IF a.token # b.token THEN 1
    ELSE IF a.token = "PARAM" THEN (IF a.val # b.val THEN 1 ELSE 0)
    ELSE IF a.token = "NUMBER" THEN
        IF ~type_equal(a.ntype, b.ntype) THEN 1
        ELSE IF a.val # b.val THEN 1 ELSE 0
    ELSE str_cmp(a.str, b.str)

(***************************************************************************)
(* Token lists.                                                            *)
(***************************************************************************)
RECURSIVE len(_)
len(list) == IF Head(list).token = "END" THEN 0 ELSE 1 + len(Tail(list))

concat(list, other) ==
    Take(list, len(list)) \o Take(other, len(other) + 1)

append(list, other) ==
    LET i == len(list) IN Take(list, i) \o <<other, list[i + 1]>>

copy(list) == Take(list, len(list) + 1)

(***************************************************************************)
(* Results of operations that may end the session.                         *)
(***************************************************************************)
Ok(v) == [ok |-> TRUE, err |-> "", val |-> v]

Fatal(kind) == [ok |-> FALSE, err |-> kind, val |-> <<>>]

(***************************************************************************)
(* paste: join two spellings and re-tokenize.                              *)
(***************************************************************************)
\* A paste that takes the whitespace of the right operand.
paste_right_ws(left, right) ==
    LET data == left.str \o right.str
        t    == tokenize(data)
    IN  IF t.rest # <<>> THEN Fatal("InvalidPasteResult")
        ELSE Ok([t.tok EXCEPT !.ws = right.ws])

paste(left, right) ==
    LET data == left.str \o right.str
        t    == tokenize(data)
    IN  IF t.rest # <<>> THEN Fatal("InvalidPasteResult")
        ELSE Ok([t.tok EXCEPT !.ws = left.ws])

(***************************************************************************)
(* expand_paste_operators: in-place rewrite with the two cursors ptr and   *)
(* end.  Cells after the final END are not part of the list any more.      *)
(***************************************************************************)
RECURSIVE paste_loop(_, _, _)
paste_loop(list, ptr, end) ==
    IF list[end].token = "END" THEN
        Ok(Take([list EXCEPT ![ptr + 1] = list[end]], ptr + 1))
    ELSE IF list[end].token = "TOKEN_PASTE" THEN
        IF list[end + 1].token = "END" THEN Fatal("PasteAtBoundary")
        ELSE
            LET p == paste(list[ptr], list[end + 1])
            IN  IF ~p.ok THEN p
                ELSE paste_loop([list EXCEPT ![ptr] = p.val], ptr, end + 2)
    ELSE
        paste_loop([list EXCEPT ![ptr + 1] = list[end]], ptr + 1, end + 1)

expand_paste_operators(list) ==
    IF list[1].token = "END" THEN Ok(list)
    ELSE IF list[1].token = "TOKEN_PASTE" THEN Fatal("PasteAtBoundary")
    ELSE paste_loop(list, 1, 2)

(***************************************************************************)
(* stringify: one STRING token from the spellings of a list; a single      *)
(* space goes before a token that has leading whitespace and is not the    *)
(* first one.                                                              *)
(***************************************************************************)
RECURSIVE stringify_loop(_, _, _)
stringify_loop(list, n, buf) ==
    IF Head(list).token = "END" THEN buf
    ELSE
        LET t   == Head(list)
            sep == IF n > 0 /\ t.ws > 0 THEN <<" ">> ELSE <<>>
        IN  stringify_loop(Tail(list), n + 1, buf \o sep \o tokstr(t))

stringify(list) == Tok("STRING", stringify_loop(list, 0, <<>>), 0)

(***************************************************************************)
(* error: the diagnostic sink (collaborator).  It records the message and  *)
(* returns; ending the session is the caller's exit(1).                    *)
(***************************************************************************)
error(d, kind, at) == Append(d, [kind |-> kind, at |-> at])

(***************************************************************************)
(* The argument reader.  Positions are indexes into the list being read.   *)
(***************************************************************************)
\* skip: diagnose a token other than the expected one, then step over it.
skip(list, pos, token, d) ==
    [pos   |-> pos + 1,
     diags |-> IF list[pos].token # token
               THEN error(d, "ExpectedToken", pos) ELSE d]

\* read_arg: the do-while body runs before the stop condition is tested.
RECURSIVE read_arg_loop(_, _, _, _)
read_arg_loop(list, pos, arg, nesting) ==
    IF list[pos].token = "END" THEN
        [ok |-> FALSE, err |-> "UnterminatedInvocation", arg |-> <<>>, pos |-> pos]
    ELSE
        LET nest == IF list[pos].token = "(" THEN nesting + 1
                    ELSE IF list[pos].token = ")" THEN nesting - 1
                    ELSE nesting
        IN  IF nest < 0 THEN
                [ok |-> FALSE, err |-> "UnbalancedParens", arg |-> <<>>, pos |-> pos]
            ELSE IF nest # 0 \/ list[pos + 1].token \notin {",", ")"} THEN
                read_arg_loop(list, pos + 1, Append(arg, list[pos]), nest)
            ELSE
                [ok |-> TRUE, err |-> "", arg |-> Append(arg, list[pos]) \o <<END>>,
                 pos |-> pos + 1]

read_arg(list, pos) == read_arg_loop(list, pos, <<>>, 0)

\* read_args: '(' , params arguments separated by ',' , then ')'.
RECURSIVE read_args_loop(_, _, _, _, _, _)
read_args_loop(list, pos, n, params, args, d) ==
    IF n < params THEN
        LET a == read_arg(list, pos)
        IN  IF ~a.ok THEN
                [ok |-> FALSE, err |-> a.err, args |-> args, pos |-> a.pos,
                 diags |-> error(d, a.err, a.pos)]
            ELSE IF n < params - 1 THEN
                LET s == skip(list, a.pos, ",", d)
                IN  read_args_loop(list, s.pos, n + 1, params,
                                   Append(args, a.arg), s.diags)
            ELSE read_args_loop(list, a.pos, n + 1, params,
                                Append(args, a.arg), d)
    ELSE
        LET s == skip(list, pos, ")", d)
        IN  [ok |-> TRUE, err |-> "", args |-> args, pos |-> s.pos,
             diags |-> s.diags]

read_args(list, pos, macro) ==
    IF macro.type = "FUNCTION_LIKE" THEN
        LET s == skip(list, pos, "(", <<>>)
        IN  read_args_loop(list, s.pos, 0, macro.params, <<>>, s.diags)
    ELSE
        [ok |-> TRUE, err |-> "", args |-> <<>>, pos |-> pos, diags |-> <<>>]

(***************************************************************************)
(* The macro table.  A struct macro is a record; the table maps the        *)
(* spelling of a name to the stored macro.                                 *)
(***************************************************************************)
Macro(name, type, params, replacement) ==
    [name |-> Ident(name), type |-> type, params |-> params,
     replacement |-> replacement]

str__STDC_VERSION__ ==
    <<"_", "_", "S", "T", "D", "C", "_", "V", "E", "R", "S", "I", "O",
      "N", "_", "_">>

str__STDC__ ==
    <<"_", "_", "S", "T", "D", "C", "_", "_">>

str__STDC_HOSTED__ ==
    <<"_", "_", "S", "T", "D", "C", "_", "H", "O", "S", "T", "E", "D",
      "_", "_">>

str__LINE__ ==
    <<"_", "_", "L", "I", "N", "E", "_", "_">>

str__x86_64__ ==
    <<"_", "_", "x", "8", "6", "_", "6", "4", "_", "_">>

str__inline ==
    <<"_", "_", "i", "n", "l", "i", "n", "e">>

str__FILE__ ==
    <<"_", "_", "F", "I", "L", "E", "_", "_">>

str__builtin_va_end ==
    <<"_", "_", "b", "u", "i", "l", "t", "i", "n", "_", "v", "a", "_",
      "e", "n", "d">>

text199409L ==
    <<"1", "9", "9", "4", "0", "9", "L">>

va_end_body ==
    <<"@", "[", "0", "]", ".", "g", "p", "_", "o", "f", "f", "s", "e",
      "t", "=", "0", ";", "@", "[", "0", "]", ".", "f", "p", "_", "o",
      "f", "f", "s", "e", "t", "=", "0", ";", "@", "[", "0", "]", ".",
      "o", "v", "e", "r", "f", "l", "o", "w", "_", "a", "r", "g", "_",
      "a", "r", "e", "a", "=", "(", "v", "o", "i", "d", "*", ")", "0",
      ";", "@", "[", "0", "]", ".", "r", "e", "g", "_", "s", "a", "v",
      "e", "_", "a", "r", "e", "a", "=", "(", "v", "o", "i", "d", "*",
      ")", "0", ";">>

\* macrocmp: 0 iff the two macros are structurally equivalent.
RECURSIVE replacement_cmp(_, _, _)
replacement_cmp(a, b, i) ==
    IF i > Len(a) THEN 0
    ELSE IF tok_cmp(a[i], b[i]) # 0 THEN 1
    ELSE replacement_cmp(a, b, i + 1)

macrocmp_no_length(a, b) ==
    IF a.type # b.type \/ a.params # b.params THEN 1
    ELSE IF tok_cmp(a.name, b.name) # 0 THEN 1
    ELSE IF Len(a.replacement) > Len(b.replacement) THEN 1
    ELSE replacement_cmp(a.replacement, b.replacement, 1)

macrocmp(a, b) ==
    IF a.type # b.type \/ a.params # b.params THEN 1
    ELSE IF tok_cmp(a.name, b.name) # 0 THEN 1
    ELSE IF Len(a.replacement) # Len(b.replacement) THEN 1
    ELSE replacement_cmp(a.replacement, b.replacement, 1)

\* The hash table (collaborator): lookup, insert-if-absent, remove.
hash_lookup(tbl, key) == key \in DOMAIN tbl

hash_insert(tbl, macro) ==
    IF macro.name.str \in DOMAIN tbl THEN tbl
    ELSE tbl @@ (macro.name.str :> macro)

hash_remove(tbl, key) == [k \in DOMAIN tbl \ {key} |-> tbl[k]]

\* definition: look a name up; a lookup of __LINE__ writes the current
\* line into the first token of the stored replacement.
definition(tbl, ln, name) ==
    IF name.token = "IDENTIFIER" /\ hash_lookup(tbl, name.str) THEN
        [found |-> TRUE,
         table |-> IF str_cmp(tbl[name.str].name.str, str__LINE__) = 0
                   THEN [tbl EXCEPT ![name.str].replacement[1].val = ln]
                   ELSE tbl]
    ELSE [found |-> FALSE, table |-> tbl]

\* define: insert, or compare with the macro already stored.
define(tbl, macro) ==
    LET t   == hash_insert(tbl, macro)
        ref == t[macro.name.str]
    IN  IF macrocmp(ref, macro) # 0 THEN Fatal("RedefinitionMismatch")
        ELSE Ok(t)

undef(tbl, name) ==
    IF name.token = "IDENTIFIER" THEN hash_remove(tbl, name.str) ELSE tbl

(***************************************************************************)
(* The builtins registrar.                                                 *)
(***************************************************************************)
RECURSIVE parse(_)
parse(str) ==
    IF str = <<>> THEN <<>>
    ELSE IF Head(str) = "@" THEN <<Param(0)>> \o parse(Tail(str))
    ELSE LET t == tokenize(str) IN <<t.tok>> \o parse(t.rest)

\* The replacement lists that the registrar parses from text.
replacement199409L == parse(text199409L)

replacement1 == parse(<<"1">>)

replacement0 == parse(<<"0">>)

replacement_blank == parse(<<" ">>)

replacement_va_end == parse(va_end_body)

builtin_definitions(file) ==
    << Macro(str__STDC_VERSION__, "OBJECT_LIKE", 0, replacement199409L),
       Macro(str__STDC__, "OBJECT_LIKE", 0, replacement1),
       Macro(str__STDC_HOSTED__, "OBJECT_LIKE", 0, replacement1),
       Macro(str__LINE__, "OBJECT_LIKE", 0, replacement0),
       Macro(str__x86_64__, "OBJECT_LIKE", 0, replacement1),
       Macro(str__inline, "OBJECT_LIKE", 0, replacement_blank),
       Macro(str__FILE__, "OBJECT_LIKE", 0, <<Tok("STRING", file, 0)>>),
       Macro(str__builtin_va_end, "FUNCTION_LIKE", 1, replacement_va_end) >>

\* The defines run in order; the first mismatch ends the session.
RECURSIVE define_all(_, _, _)
define_all(tbl, macros, i) ==
    IF i > Len(macros) THEN Ok(tbl)
    ELSE LET r == define(tbl, macros[i])
         IN  IF ~r.ok THEN [r EXCEPT !.val = macros[i].name.str]
             ELSE define_all(r.val, macros, i + 1)

register_builtin_definitions(tbl, file) ==
    define_all(tbl, builtin_definitions(file), 1)

(***************************************************************************)
(* The expansion stack holds the names of the macros being expanded.       *)
(***************************************************************************)
is_macro_expanded(stack, macro) ==
    \E i \in 1..Len(stack) : tok_cmp(stack[i], macro.name) = 0

\* push_expand_stack: asserts that the macro is not on the stack.
push_expand_stack(stack, macro) ==
    IF is_macro_expanded(stack, macro) THEN [ok |-> FALSE, stack |-> stack]
    ELSE [ok |-> TRUE, stack |-> Append(stack, macro.name)]

\* pop_expand_stack: asserts that the stack is not empty.
pop_expand_stack(stack) ==
    IF Len(stack) = 0 THEN [ok |-> FALSE, stack |-> stack]
    ELSE [ok |-> TRUE, stack |-> Take(stack, Len(stack) - 1)]

\* needs_expansion: is there a macro in the list that is not on the stack?
\* Every token before it is looked up, __LINE__ included.
RECURSIVE needs_expansion(_, _, _, _)
needs_expansion(tbl, ln, stack, list) ==
    IF Head(list).token = "END" THEN [need |-> FALSE, table |-> tbl]
    ELSE
        LET d == definition(tbl, ln, Head(list))
        IN  IF d.found /\ ~is_macro_expanded(stack, d.table[Head(list).str])
            THEN [need |-> TRUE, table |-> d.table]
            ELSE needs_expansion(d.table, ln, stack, Tail(list))

\* The test of expand's loop: does the token at pos start an expansion?
expands_reentrant(tbl, stack, list, pos) ==
    /\ list[pos].token = "IDENTIFIER"
    /\ hash_lookup(tbl, list[pos].str)
    /\ \/ tbl[list[pos].str].type # "FUNCTION_LIKE"
       \/ list[pos + 1].token = "("

expands_here(tbl, stack, list, pos) ==
    /\ list[pos].token = "IDENTIFIER"
    /\ hash_lookup(tbl, list[pos].str)
    /\ ~is_macro_expanded(stack, tbl[list[pos].str])
    /\ \/ tbl[list[pos].str].type # "FUNCTION_LIKE"
       \/ list[pos + 1].token = "("

(***************************************************************************)
(* Activations of expand and expand_macro.  frames is the C call stack,    *)
(* the last frame being the running one.                                   *)
(*   expand:       pc "entry" (before needs_expansion), "loop", "call"     *)
(*                 (expand_macro running for the token before pos)         *)
(*   expand_macro: pc "subst" (the loop over the replacement), "arg"       *)
(*                 (expand of an argument running), "rescan" (pasted,      *)
(*                 before the rescan), "rescanning", "pop"                 *)
(***************************************************************************)
ExpandFrame(list) ==
    [fn |-> "expand", pc |-> "entry", list |-> list, pos |-> 1,
     res |-> <<END>>, macro |-> <<>>, args |-> <<>>, i |-> 0, lw |-> 0]

MacroFrame(name, args) ==
    [fn |-> "expand_macro", pc |-> "subst", list |-> <<>>, pos |-> 0,
     res |-> <<END>>, macro |-> name, args |-> args, i |-> 1, lw |-> 0]

Top == frames[Len(frames)]

Running(fn, pc) ==
    /\ status = "running"
    /\ frames # <<>>
    /\ Top.fn = fn
    /\ Top.pc = pc

SetTop(f) == [frames EXCEPT ![Len(frames)] = f]

\* What the caller does with a returned list.
Resume(c, v) ==
    IF c.fn = "expand_macro" /\ c.pc = "arg" THEN
        [c EXCEPT !.res = concat(c.res, v), !.i = c.i + 1, !.pc = "subst"]
    ELSE IF c.fn = "expand_macro" THEN
        [c EXCEPT !.res = v, !.pc = "pop"]
    ELSE
        [c EXCEPT !.res = concat(c.res, [v EXCEPT ![1].ws = c.lw]),
                  !.pc = "loop"]

\* The running activation returns v.
Return(v) ==
    IF Len(frames) = 1 THEN
        /\ frames' = <<>>
        /\ result' = Append(result, v)
        /\ status' = IF Len(result) = 1 THEN "returned" ELSE status
    ELSE
        /\ frames' = Append(Take(frames, Len(frames) - 2),
                            Resume(frames[Len(frames) - 1], v))
        /\ UNCHANGED <<result, status>>

Exit(d) ==
    /\ diag' = d
    /\ status' = "fatal"

\* expand, up to the test of needs_expansion.
ExpandEnter ==
    /\ Running("expand", "entry")
    /\ LET n == needs_expansion(table, line, expand_stack, Top.list)
       IN  /\ table' = n.table
           /\ IF n.need
              THEN /\ frames' = SetTop([Top EXCEPT !.pc = "loop"])
                   /\ UNCHANGED <<result, status>>
              ELSE Return(Top.list)
    /\ UNCHANGED <<line, path, expand_stack, input, diag, hist>>

\* One turn of expand's loop on a token that does not start an expansion.
ExpandAppend ==
    /\ Running("expand", "loop")
    /\ Top.pos <= Len(Top.list)
    /\ Top.list[Top.pos].token # "END"
    /\ ~expands_here(table, expand_stack, Top.list, Top.pos)
    /\ table' = definition(table, line, Top.list[Top.pos]).table
    /\ frames' = SetTop([Top EXCEPT !.res = append(Top.res, Top.list[Top.pos]),
                                    !.pos = Top.pos + 1])
    /\ UNCHANGED <<line, path, expand_stack, input, result, status, diag, hist>>

\* One turn of expand's loop on a macro invocation: read the arguments and
\* enter expand_macro, which first pushes the macro.
ExpandInvoke ==
    /\ Running("expand", "loop")
    /\ Top.pos <= Len(Top.list)
    /\ Top.list[Top.pos].token # "END"
    /\ expands_here(table, expand_stack, Top.list, Top.pos)
    /\ LET tok == Top.list[Top.pos]
           tbl == definition(table, line, tok).table
           def == tbl[tok.str]
           ra  == read_args(Top.list, Top.pos + 1, def)
           d   == diag \o [k \in 1..Len(ra.diags) |->
                              [kind |-> ra.diags[k].kind, at |-> ra.diags[k].at,
                               call |-> Len(result) + 1]]
           ps  == push_expand_stack(expand_stack, def)
       IN  /\ table' = tbl
           /\ diag' = d
           /\ IF ~ra.ok THEN
                  /\ status' = "fatal"
                  /\ UNCHANGED <<frames, expand_stack>>
              ELSE IF ~ps.ok THEN
                  /\ status' = "assert"
                  /\ UNCHANGED <<frames, expand_stack>>
              ELSE
                  /\ expand_stack' = ps.stack
                  /\ frames' = Append(SetTop([Top EXCEPT !.pos = ra.pos,
                                                         !.lw = tok.ws,
                                                         !.pc = "call"]),
                                      MacroFrame(tok.str, ra.args))
                  /\ UNCHANGED status
    /\ UNCHANGED <<line, path, input, result, hist>>

\* expand's loop reaches END and returns the result list.
ExpandReturn ==
    /\ Running("expand", "loop")
    /\ Top.pos <= Len(Top.list)
    /\ Top.list[Top.pos].token = "END"
    /\ Return(Top.res)
    /\ UNCHANGED <<table, line, path, expand_stack, input, diag, hist>>

\* Tokens that name no macro of any table: what a read past the END
\* sentinel may come upon.
JunkTokens == {Ident(<<"j">>)}

\* expand's loop with the position past the END sentinel of its list (skip
\* stepped over END): the read is outside the array.  It may fault, may
\* come upon an END, or may come upon some other token.
ExpandOverrun ==
    /\ Running("expand", "loop")
    /\ Top.pos > Len(Top.list)
    /\ \/ /\ status' = "crashed"
          /\ UNCHANGED <<frames, result>>
       \/ Return(Top.res)
       \/ /\ Top.pos - Len(Top.list) <= MaxOverrun
          /\ \E j \in JunkTokens :
                frames' = SetTop([Top EXCEPT !.res = append(Top.res, j),
                                             !.pos = Top.pos + 1])
          /\ UNCHANGED <<result, status>>
    /\ UNCHANGED <<table, line, path, expand_stack, input, diag, hist>>

\* The replacement of the macro being substituted.
Replacement(f) == table[f.macro].replacement

IsStringify(f) ==
    /\ f.i < Len(Replacement(f))
    /\ Replacement(f)[f.i].token = "#"
    /\ Replacement(f)[f.i + 1].token = "PARAM"

\* expand_macro, a PARAM token: expand a copy of the argument.
MacroParam ==
    /\ Running("expand_macro", "subst")
    /\ Top.i <= Len(Replacement(Top))
    /\ Replacement(Top)[Top.i].token = "PARAM"
    /\ frames' = Append(SetTop([Top EXCEPT !.pc = "arg"]),
                        ExpandFrame(copy(Top.args[Replacement(Top)[Top.i].val + 1])))
    /\ UNCHANGED <<table, line, path, expand_stack, input, result, status,
                   diag, hist>>

\* expand_macro, '#' before a PARAM: stringify the argument.
MacroStringify ==
    /\ Running("expand_macro", "subst")
    /\ Top.i <= Len(Replacement(Top))
    /\ Replacement(Top)[Top.i].token # "PARAM"
    /\ IsStringify(Top)
    /\ frames' = SetTop([Top EXCEPT
            !.res = append(Top.res,
                           stringify(Top.args[Replacement(Top)[Top.i + 1].val + 1])),
            !.i = Top.i + 2])
    /\ UNCHANGED <<table, line, path, expand_stack, input, result, status,
                   diag, hist>>

\* expand_macro, any other token: append it.
MacroToken ==
    /\ Running("expand_macro", "subst")
    /\ Top.i <= Len(Replacement(Top))
    /\ Replacement(Top)[Top.i].token # "PARAM"
    /\ ~IsStringify(Top)
    /\ frames' = SetTop([Top EXCEPT
            !.res = append(Top.res, Replacement(Top)[Top.i]),
            !.i = Top.i + 1])
    /\ UNCHANGED <<table, line, path, expand_stack, input, result, status,
                   diag, hist>>

\* expand_macro after the loop: the paste operators of the result.
MacroPaste ==
    /\ Running("expand_macro", "subst")
    /\ Top.i > Len(Replacement(Top))
    /\ LET r == expand_paste_operators(Top.res)
       IN  IF r.ok THEN
               /\ frames' = SetTop([Top EXCEPT !.res = r.val, !.pc = "rescan"])
               /\ UNCHANGED <<status, diag>>
           ELSE
               /\ Exit(Append(diag, [kind |-> r.err, at |-> 0,
                                     call |-> Len(result) + 1]))
               /\ UNCHANGED frames
    /\ UNCHANGED <<table, line, path, expand_stack, input, result, hist>>

\* A rescan that takes the macro off the expansion stack first.
MacroRescanPopped ==
    /\ Running("expand_macro", "rescan")
    /\ frames' = Append(SetTop([Top EXCEPT !.pc = "rescanning"]),
                        ExpandFrame(Top.res))
    /\ expand_stack' = pop_expand_stack(expand_stack).stack
    /\ UNCHANGED <<table, line, path, input, result, status, diag, hist>>

\* expand_macro: res = expand(res).
MacroRescan ==
    /\ Running("expand_macro", "rescan")
    /\ frames' = Append(SetTop([Top EXCEPT !.pc = "rescanning"]),
                        ExpandFrame(Top.res))
    /\ UNCHANGED <<table, line, path, expand_stack, input, result, status,
                   diag, hist>>

\* expand_macro: pop_expand_stack and return.
MacroPop ==
    /\ Running("expand_macro", "pop")
    /\ LET ps == pop_expand_stack(expand_stack)
       IN  IF ps.ok THEN
               /\ expand_stack' = ps.stack
               /\ Return(Top.res)
           ELSE
               /\ status' = "assert"
               /\ UNCHANGED <<frames, result, expand_stack>>
    /\ UNCHANGED <<table, line, path, input, diag, hist>>

\* The caller hands the list expand returned to expand once more.
ExpandAgain ==
    /\ status = "running"
    /\ frames = <<>>
    /\ Len(result) = 1
    /\ frames' = <<ExpandFrame(result[1])>>
    /\ UNCHANGED <<table, line, path, expand_stack, input, result, status,
                   diag, hist>>

(***************************************************************************)
(* Macro tables and inputs of the expander.                                *)
(***************************************************************************)
tA == Ident(<<"A">>)

tB == Ident(<<"B">>)

tF == Ident(<<"F">>)

tx == Ident(<<"x">>)

tLINE == Ident(str__LINE__)

TableOf(macros) ==
    [k \in {macros[i].name.str : i \in 1..Len(macros)} |->
        (CHOOSE m \in {macros[i] : i \in 1..Len(macros)} : m.name.str = k)]

\* A = [B], B = [A]
TableMutual ==
    TableOf(<< Macro(<<"A">>, "OBJECT_LIKE", 0, <<tB>>),
               Macro(<<"B">>, "OBJECT_LIKE", 0, <<tA>>) >>)

\* A = [A B], B = [x], __LINE__ = [0]
TableSelf ==
    TableOf(<< Macro(<<"A">>, "OBJECT_LIKE", 0, <<tA, tB>>),
               Macro(<<"B">>, "OBJECT_LIKE", 0, <<tx>>),
               Macro(str__LINE__, "OBJECT_LIKE", 0, parse(<<"0">>)) >>)

\* F(p) = [p], B = [F], A = [x]
TableIdentity ==
    TableOf(<< Macro(<<"F">>, "FUNCTION_LIKE", 1, <<Param(0)>>),
               Macro(<<"B">>, "OBJECT_LIKE", 0, <<tF>>),
               Macro(<<"A">>, "OBJECT_LIKE", 0, <<tx>>) >>)

\* F() = [x]
TableNoParams ==
    TableOf(<< Macro(<<"F">>, "FUNCTION_LIKE", 0, <<tx>>) >>)

\* F(p,q) = [p ## q], A = [x], B = [A ## x], xx = [B]
TablePaste ==
    TableOf(<< Macro(<<"F">>, "FUNCTION_LIKE", 2, <<Param(0), PASTE, Param(1)>>),
               Macro(<<"A">>, "OBJECT_LIKE", 0, <<tx>>),
               Macro(<<"B">>, "OBJECT_LIKE", 0, <<tA, PASTE, tx>>),
               Macro(<<"x", "x">>, "OBJECT_LIKE", 0, <<tB>>) >>)

\* F(p) = [# p p], A = [x], B = [x ##]
TableStringify ==
    TableOf(<< Macro(<<"F">>, "FUNCTION_LIKE", 1,
                     <<Punct("#"), Param(0), Param(0)>>),
               Macro(<<"A">>, "OBJECT_LIKE", 0, <<tx>>),
               Macro(<<"B">>, "OBJECT_LIKE", 0, <<tx, PASTE>>) >>)

Tables ==
    {TableMutual, TableSelf, TableIdentity, TableNoParams, TablePaste,
     TableStringify}

Pieces ==
    { <<tA>>, <<tB>>, <<tx>>, <<tLINE>>,
      <<tF, Punct("(")>>,
      <<Punct(")")>>,
      <<Punct(",")>>,
      <<tA, Punct(")")>>,
      <<tF, Punct(")")>>,
      <<tA, [tx EXCEPT !.ws = 1], Punct(")")>>,
      <<tA, Punct(","), [tx EXCEPT !.ws = 1], Punct(")")>> }

RECURSIVE Flatten(_)
Flatten(ps) == IF ps = <<>> THEN <<>> ELSE Head(ps) \o Flatten(Tail(ps))

Inputs ==
    { Append(Flatten(ps), END) :
        ps \in UNION {[1..n -> Pieces] : n \in 0..MaxPieces} }

NoHist == [op |-> "none"]

InitExpand ==
    /\ table \in Tables
    /\ input \in Inputs
    /\ line = 1
    /\ path = <<>>
    /\ expand_stack = <<>>
    /\ frames = <<ExpandFrame(input)>>
    /\ result = <<>>
    /\ status = "running"
    /\ diag = <<>>
    /\ hist = NoHist

NextExpand ==
    \/ ExpandEnter
    \/ ExpandAppend
    \/ ExpandInvoke
    \/ ExpandReturn
    \/ ExpandOverrun
    \/ MacroParam
    \/ MacroStringify
    \/ MacroToken
    \/ MacroPaste
    \/ MacroRescan
    \/ MacroPop
    \/ ExpandAgain

SpecExpand == InitExpand /\ [][NextExpand]_vars

(***************************************************************************)
(* Properties of the expander, under SpecExpand.                           *)
(***************************************************************************)

\* C1: expand is idempotent: when expand(x) and then expand(expand(x)) have
\* both returned (no diagnostic in between), the two lists are equal token
\* for token.
C1_Idempotent ==
    (status = "returned" /\ diag = <<>>) => result[2] = result[1]

NoDuplicates ==
    \A i, j \in 1..Len(expand_stack) :
        i # j => tok_cmp(expand_stack[i], expand_stack[j]) # 0

BlockedHere ==
    /\ Running("expand", "loop")
    /\ Top.pos <= Len(Top.list)
    /\ Top.list[Top.pos].token = "IDENTIFIER"
    /\ Top.list[Top.pos].str \in DOMAIN table
    /\ \E i \in 1..Len(expand_stack) :
            expand_stack[i].str = Top.list[Top.pos].str

EmittedVerbatim ==
    /\ Len(frames') = Len(frames)
    /\ frames'[Len(frames)].pos = Top.pos + 1
    /\ frames'[Len(frames)].res =
            Take(Top.res, Len(Top.res) - 1)
                \o <<Top.list[Top.pos], Top.res[Len(Top.res)]>>
    /\ expand_stack' = expand_stack

\* C2: no macro is re-entered while it is being expanded: the expansion
\* stack never holds a name twice, the assertion of push_expand_stack never
\* fails, an identifier naming a macro on the stack is appended to the
\* result as it is, the stack is empty whenever a top-level expand has
\* returned, and with A = [B], B = [A] the input A comes back as A.
C2_NoReentry ==
    /\ [](/\ NoDuplicates
          /\ status # "assert"
          /\ (frames = <<>> => expand_stack = <<>>)
          /\ (table = TableMutual /\ input = <<tA, END>> /\ Len(result) >= 1
                => result[1] = <<tA, END>>))
    /\ [][BlockedHere => EmittedVerbatim]_vars

C2_Witness ==
    /\ BlockedHere
    /\ table = TableSelf
    /\ Top.res = <<END>>

\* C3: every call of expand ends by returning a list or by a fatal error,
\* and expand_macro is never nested deeper than the number of macro names
\* in the table.
C3_Terminates ==
    /\ Len(expand_stack) <= Cardinality(DOMAIN table)
    /\ status \in {"running", "returned", "fatal"}

\* C8: every diagnostic ends the session where it is emitted: once a
\* diagnostic is out, nothing more is consumed and no list is returned.
C8_Terminal == diag # <<>> => status = "fatal"

\* The order of the steps of one expand_macro activation.
Rank(pc) ==
    CASE pc = "subst" -> 1
      [] pc = "arg" -> 1
      [] pc = "rescan" -> 2
      [] pc = "rescanning" -> 3
      [] pc = "pop" -> 4

MacroDepth(d) == Cardinality({k \in 1..d : frames[k].fn = "expand_macro"})

\* Every activation of expand_macro has its macro on the expansion stack,
\* from its first step to its pop.
OnStack ==
    /\ Len(expand_stack) = MacroDepth(Len(frames))
    /\ \A d \in 1..Len(frames) :
          frames[d].fn = "expand_macro"
            => expand_stack[MacroDepth(d)].str = frames[d].macro

\* The list the expand activation f is about to return.
Returned(f) == IF f.pc = "entry" THEN f.list ELSE f.res

\* What one step does to the activation of expand_macro at depth d.
MacroStep(d) ==
    LET f    == frames[d]
        repl == table[f.macro].replacement
    IN  IF d > Len(frames') THEN
            \* it returned: the rescan is over and the macro is popped now
            /\ f.pc = "pop"
            /\ d = Len(frames)
            /\ expand_stack' = Take(expand_stack, Len(expand_stack) - 1)
        ELSE
            LET g == frames'[d]
            IN  /\ g.fn = "expand_macro"
                /\ g.macro = f.macro
                /\ g.args = f.args
                /\ Len(expand_stack') >= MacroDepth(d)
                /\ Rank(g.pc) \in {Rank(f.pc), Rank(f.pc) + 1}
                /\ (f.pc = "subst" /\ g.pc = "subst" /\ g # f) =>
                      IF /\ f.i < Len(repl)
                         /\ repl[f.i].token = "#"
                         /\ repl[f.i + 1].token = "PARAM"
                      THEN /\ g.i = f.i + 2
                           /\ g.res = append(f.res,
                                   stringify(f.args[repl[f.i + 1].val + 1]))
                      ELSE /\ g.i = f.i + 1
                           /\ repl[f.i].token # "PARAM"
                           /\ g.res = append(f.res, repl[f.i])
                /\ (f.pc = "subst" /\ g.pc = "arg") =>
                      /\ repl[f.i].token = "PARAM"
                      /\ Len(frames') = d + 1
                      /\ frames'[d + 1] = ExpandFrame(f.args[repl[f.i].val + 1])
                      /\ expand_stack' = expand_stack
                /\ (f.pc = "arg" /\ g.pc = "subst") =>
                      /\ Len(frames) = d + 1
                      /\ g.i = f.i + 1
                      /\ g.res = concat(f.res, Returned(frames[d + 1]))
                /\ (f.pc = "arg" /\ Len(frames) = d + 1
                        /\ frames[d + 1].pc = "entry" /\ Len(frames') > d) =>
                      needs_expansion(table, line, expand_stack,
                                      frames[d + 1].list).need
                /\ (f.pc = "subst" /\ g.pc = "rescan") =>
                      /\ f.i > Len(repl)
                      /\ expand_paste_operators(f.res).ok
                      /\ g.res = expand_paste_operators(f.res).val
                /\ (f.pc = "rescan" /\ g.pc = "rescanning") =>
                      /\ Len(frames') = d + 1
                      /\ frames'[d + 1] = ExpandFrame(f.res)
                      /\ expand_stack' = expand_stack
                /\ (f.pc = "rescanning" /\ g.pc = "pop") =>
                      /\ Len(frames) = d + 1
                      /\ g.res = Returned(frames[d + 1])

\* C9: the steps of expand_macro come in a fixed order: '#' PARAM(k) gives
\* the stringification of args[k] as passed; any other PARAM(k) gives the
\* expansion of a copy of args[k], made while the macro is on the stack;
\* the paste engine runs once on the finished list, before the rescan; the
\* rescan is last, with the macro still on the stack, which is popped only
\* after it.
C9_Order ==
    /\ []OnStack
    /\ [][\A d \in 1..Len(frames) :
            frames[d].fn = "expand_macro" => MacroStep(d)]_vars

tSTRING_A_x == Tok("STRING", <<"A", " ", "x">>, 0)

C9_Witness ==
    /\ status = "returned"
    /\ table = TableStringify
    /\ input = <<tF, Punct("("), tA, [tx EXCEPT !.ws = 1], Punct(")"), END>>
    /\ result[1] = <<tSTRING_A_x, tx, [tx EXCEPT !.ws = 1], END>>

(***************************************************************************)
(* The paste engine alone: expand_paste_operators applied to a list.       *)
(***************************************************************************)
PasteAlphabet ==
    {tx, [tB EXCEPT !.ws = 1], Punct("("), Punct("#"), PASTE}

Lists(alphabet, n) ==
    { Append(s, END) : s \in UNION {[1..k -> alphabet] : k \in 0..n} }

InitPaste ==
    /\ input \in Lists(PasteAlphabet, MaxPasteLen)
    /\ table = <<>>
    /\ line = 1
    /\ path = <<>>
    /\ expand_stack = <<>>
    /\ frames = <<>>
    /\ result = <<>>
    /\ status = "running"
    /\ diag = <<>>
    /\ hist = NoHist

PasteOperators ==
    /\ status = "running"
    /\ LET r == expand_paste_operators(input)
       IN  IF r.ok THEN
               /\ result' = <<r.val>>
               /\ status' = "returned"
               /\ UNCHANGED diag
           ELSE
               /\ Exit(<<[kind |-> r.err, at |-> 0, call |-> 1]>>)
               /\ UNCHANGED result
    /\ UNCHANGED <<table, line, path, expand_stack, frames, input, hist>>

NextPaste == PasteOperators

SpecPaste == InitPaste /\ [][NextPaste]_vars

\* The paste operators of a list, read left to right from the second
\* token: a TOKEN_PASTE that directly follows an operator is its operand.
RECURSIVE IsOperator(_, _)
IsOperator(list, i) ==
    /\ i > 1
    /\ list[i].token = "TOKEN_PASTE"
    /\ ~IsOperator(list, i - 1)

Operators(list) == {i \in 1..len(list) : IsOperator(list, i)}

IsOperand(list, i) == i > 1 /\ IsOperator(list, i - 1)

\* The paste of the chain that the operator at i ends: a left fold.
RECURSIVE PasteAt(_, _)
PasteAt(list, i) ==
    LET left == IF IsOperand(list, i - 1) THEN PasteAt(list, i - 2)
                ELSE Ok(list[i - 1])
    IN  IF ~left.ok THEN left
        ELSE IF list[i + 1].token = "END" THEN Fatal("PasteAtBoundary")
        ELSE paste(left.val, list[i + 1])

RECURSIVE ChainHead(_, _)
ChainHead(list, i) ==
    IF IsOperand(list, i) THEN ChainHead(list, i - 2) ELSE i

\* The positions whose token ends a chain (a chain may be a single token).
ChainEnds(list) ==
    {i \in 1..len(list) : ~IsOperator(list, i) /\ ~IsOperator(list, i + 1)}

ChainValue(list, i) ==
    IF IsOperand(list, i) THEN PasteAt(list, i - 1).val ELSE list[i]

RECURSIVE InOrder(_, _, _)
InOrder(list, S, i) ==
    IF i > len(list) THEN <<>>
    ELSE (IF i \in S THEN <<ChainValue(list, i)>> ELSE <<>>)
            \o InOrder(list, S, i + 1)

Folded(list) == Append(InOrder(list, ChainEnds(list), 1), list[len(list) + 1])

FailedOperators(list) == {i \in Operators(list) : ~PasteAt(list, i).ok}

FirstFailure(list) ==
    LET i == CHOOSE k \in FailedOperators(list) :
                \A m \in FailedOperators(list) : k <= m
    IN  PasteAt(list, i).err

FailedWith(kind) ==
    /\ status = "fatal"
    /\ diag = <<[kind |-> kind, at |-> 0, call |-> 1]>>

FoldedInPlace ==
    IF FailedOperators(input) # {} THEN FailedWith(FirstFailure(input))
    ELSE
        /\ status = "returned"
        /\ result[1] = Folded(input)
        /\ Len(result[1]) = Len(input) - 2 * Cardinality(Operators(input))
        /\ result[1][Len(result[1])].token = "END"
        /\ \A i \in ChainEnds(input) :
              ChainValue(input, i).ws = input[ChainHead(input, i)].ws

\* C10 (as claimed): a TOKEN_PASTE in first or last position fails with
\* PasteAtBoundary; otherwise every chain t0 ## t1 ## ... ## tn is replaced
\* in place by its left fold, which carries t0's leading whitespace, the
\* other tokens keep order and value, and the result is END-terminated and
\* shorter by two tokens per operator.
C10_LeftFold ==
    status # "running" =>
        IF \/ input[1].token = "TOKEN_PASTE"
           \/ (len(input) > 0 /\ input[len(input)].token = "TOKEN_PASTE")
        THEN FailedWith("PasteAtBoundary")
        ELSE FoldedInPlace

\* C10 (amended): a TOKEN_PASTE in first position fails with
\* PasteAtBoundary; otherwise the operators are read left to right, the
\* token after an operator being its operand whatever its kind, and the
\* first paste that fails decides the error: PasteAtBoundary when its right
\* operand is END, InvalidPasteResult when the joined spelling is not one
\* token.  A TOKEN_PASTE in last position therefore always ends the session
\* but not always with PasteAtBoundary.  Without a failure the list is
\* folded as claimed.
C10_LeftFoldAmended ==
    status # "running" =>
        IF input[1].token = "TOKEN_PASTE" THEN FailedWith("PasteAtBoundary")
        ELSE
            /\ FoldedInPlace
            /\ (len(input) > 0 /\ input[len(input)].token = "TOKEN_PASTE")
                  => /\ status = "fatal"
                     /\ diag[1].kind \in {"PasteAtBoundary", "InvalidPasteResult"}

C10_Witness ==
    /\ status = "returned"
    /\ Cardinality(Operators(input)) = 2
    /\ Len(result[1]) = 2
    /\ result[1][1] = [Ident(<<"B", "x", "x">>) EXCEPT !.ws = 1]

(***************************************************************************)
(* The argument reader alone: read_args applied to F ( ... with F a        *)
(* function-like macro of 0, 1 or 2 parameters.                            *)
(***************************************************************************)
ArgAlphabet == {tx, Punct("("), Punct(")"), Punct(",")}

MaxParams == 2

InitArgs ==
    /\ \E body \in Lists(ArgAlphabet, MaxArgLen) :
          input = <<tF, Punct("(")>> \o body
    /\ \E n \in 0..MaxParams :
          table = TableOf(<<Macro(<<"F">>, "FUNCTION_LIKE", n, <<tx>>)>>)
    /\ line = 1
    /\ path = <<>>
    /\ expand_stack = <<>>
    /\ frames = <<>>
    /\ result = <<>>
    /\ status = "running"
    /\ diag = <<>>
    /\ hist = NoHist

\* read_args(def, list + 1, &list), list pointing at the macro name.
ReadArgs ==
    /\ status = "running"
    /\ LET r == read_args(input, 2, table[<<"F">>])
       IN  /\ result' = <<r>>
           /\ diag' = r.diags
           /\ status' = IF r.ok THEN "returned" ELSE "fatal"
    /\ UNCHANGED <<table, line, path, expand_stack, frames, input, hist>>

NextArgs == ReadArgs

SpecArgs == InitArgs /\ [][NextArgs]_vars

\* The index of the ')' that closes the '(' before position j, 0 if none.
RECURSIVE Matching(_, _, _)
Matching(list, j, depth) ==
    IF list[j].token = "END" THEN 0
    ELSE IF list[j].token = "(" THEN Matching(list, j + 1, depth + 1)
    ELSE IF list[j].token = ")" THEN
        (IF depth = 1 THEN j ELSE Matching(list, j + 1, depth - 1))
    ELSE Matching(list, j + 1, depth)

\* C6: when the parentheses of the invocation are balanced and read_args
\* returns, the position it leaves is the one right after the ')' that
\* matches the opening '('.
C6_AfterClosingParen ==
    (status = "returned" /\ Matching(input, 3, 1) # 0)
        => result[1].pos = Matching(input, 3, 1) + 1

\* C7: when the first argument of a balanced invocation of a macro with
\* parameters is empty (the token after '(' is ',' or ')'), read_args
\* accepts it: no diagnostic at that position, and the argument is the list
\* holding only END.
C7_EmptyArgument ==
    (status # "running" /\ table[<<"F">>].params >= 1
        /\ Matching(input, 3, 1) # 0
        /\ input[3].token \in {",", ")"})
        => /\ Len(result[1].args) >= 1
           /\ result[1].args[1] = <<END>>
           /\ \A k \in 1..Len(diag) : diag[k].at # 3

(***************************************************************************)
(* The macro table alone: define, undef, definition and the builtins       *)
(* registrar, called in any order while the current line advances.         *)
(***************************************************************************)
strX == <<"X">>

PathA == <<"a", ".", "c">>

PathB == <<"b", ".", "c">>

\* Definitions of X that differ in spelling, whitespace, type, length,
\* kind and parameters, and a definition of __LINE__ like the builtin one.
DefineMacros ==
    { Macro(strX, "OBJECT_LIKE", 0, parse(<<"1">>)),
      Macro(strX, "OBJECT_LIKE", 0, parse(<<"0", "1">>)),
      Macro(strX, "OBJECT_LIKE", 0, parse(<<" ", "1">>)),
      Macro(strX, "OBJECT_LIKE", 0, parse(<<"1", "U">>)),
      Macro(strX, "OBJECT_LIKE", 0, parse(<<"x">>)),
      Macro(strX, "OBJECT_LIKE", 0, parse(<<"1", " ", "x">>)),
      Macro(strX, "FUNCTION_LIKE", 0, parse(<<"1">>)),
      Macro(strX, "FUNCTION_LIKE", 1, parse(<<"1">>)),
      Macro(strX, "FUNCTION_LIKE", 1, parse(<<"@">>)),
      Macro(strX, "FUNCTION_LIKE", 2, <<Param(0)>>),
      Macro(strX, "FUNCTION_LIKE", 2, <<Param(1)>>),
      Macro(str__LINE__, "OBJECT_LIKE", 0, parse(<<"0">>)) }

BuiltinNames ==
    {builtin_definitions(PathA)[i].name.str : i \in 1..8}

Names == {Ident(strX), tLINE, Ident(str__STDC__)}

NoMacro == <<>>

InitDefine ==
    /\ table = TableOf(<<>>)
    /\ line = 0
    /\ path = PathA
    /\ expand_stack = <<>>
    /\ frames = <<>>
    /\ input = <<>>
    /\ result = <<>>
    /\ status = "running"
    /\ diag = <<>>
    /\ hist = [op |-> "none", macro |-> NoMacro, before |-> TableOf(<<>>),
               prevdef |-> NoMacro, lastdef |-> NoMacro,
               registered |-> FALSE, was |-> FALSE]

\* define(macro); a mismatch prints the diagnostic and exits.
Define(m) ==
    /\ status = "running"
    /\ LET r == define(table, m)
       IN  /\ hist' = [op |-> "define", macro |-> m, before |-> table,
                       prevdef |-> hist.lastdef,
                       lastdef |-> IF r.ok THEN m ELSE NoMacro,
                       registered |-> hist.registered,
                       was |-> hist.registered]
           /\ IF r.ok THEN
                  /\ table' = r.val
                  /\ UNCHANGED <<status, diag>>
              ELSE
                  /\ Exit(error(diag, r.err, m.name.str))
                  /\ UNCHANGED table
    /\ UNCHANGED <<line, path, expand_stack, frames, input, result>>

Undef(name) ==
    /\ status = "running"
    /\ table' = undef(table, name)
    /\ hist' = [op |-> "undef", macro |-> name, before |-> table,
                prevdef |-> NoMacro, lastdef |-> NoMacro,
                registered |-> hist.registered /\ name.str \notin BuiltinNames,
                was |-> hist.registered]
    /\ UNCHANGED <<line, path, expand_stack, frames, input, result, status,
                   diag>>

\* definition(name), as the expander and the directive handlers call it.
Lookup(name) ==
    /\ status = "running"
    /\ table' = definition(table, line, name).table
    /\ hist' = [op |-> "lookup", macro |-> name, before |-> table,
                prevdef |-> NoMacro, lastdef |-> NoMacro,
                registered |-> hist.registered,
                was |-> hist.registered]
    /\ UNCHANGED <<line, path, expand_stack, frames, input, result, status,
                   diag>>

Register ==
    /\ status = "running"
    /\ LET r == register_builtin_definitions(table, path)
       IN  /\ hist' = [op |-> "register", macro |-> NoMacro, before |-> table,
                       prevdef |-> NoMacro, lastdef |-> NoMacro,
                       registered |-> r.ok,
                       was |-> hist.registered]
           /\ IF r.ok THEN
                  /\ table' = r.val
                  /\ UNCHANGED <<status, diag>>
              ELSE
                  /\ Exit(error(diag, r.err, r.val))
                  /\ UNCHANGED table
    /\ UNCHANGED <<line, path, expand_stack, frames, input, result>>

\* The input advances to the next line.
NextLine ==
    /\ status = "running"
    /\ line < MaxLine
    /\ line' = line + 1
    /\ UNCHANGED <<table, path, expand_stack, frames, input, result, status,
                   diag, hist>>

\* The input moves to another file.
SetPath ==
    /\ status = "running"
    /\ path' \in {PathA, PathB} \ {path}
    /\ hist' = [hist EXCEPT !.registered = FALSE]
    /\ UNCHANGED <<table, line, expand_stack, frames, input, result, status,
                   diag>>

NextDefine ==
    \/ \E m \in DefineMacros : Define(m)
    \/ \E name \in Names : Undef(name)
    \/ \E name \in Names : Lookup(name)
    \/ Register
    \/ NextLine
    \/ SetPath

SpecDefine == InitDefine /\ [][NextDefine]_vars

\* Token equality as the redefinition rule states it: same kind; PARAM by
\* index, NUMBER by type and value, any other token by spelling; leading
\* whitespace is not compared.
SameToken(a, b) ==
    /\ a.token = b.token
    /\ a.token = "PARAM" => a.val = b.val
    /\ a.token = "NUMBER" => (a.ntype = b.ntype /\ a.val = b.val)
    /\ a.token \notin {"PARAM", "NUMBER"} => a.str = b.str

Differs(m, n) ==
    \/ m.type # n.type
    \/ m.params # n.params
    \/ Len(m.replacement) # Len(n.replacement)
    \/ \E i \in 1..Len(m.replacement) :
          i <= Len(n.replacement) /\ ~SameToken(m.replacement[i], n.replacement[i])

Redefined ==
    /\ hist.op = "define"
    /\ hist.prevdef # NoMacro
    /\ hist.prevdef.name.str = hist.macro.name.str

\* C4: a define that directly follows a define of the same name ends the
\* session with RedefinitionMismatch iff the two macros differ in kind,
\* parameter count, replacement length or any replacement token; otherwise
\* it succeeds and leaves the table as it was, with the stored definition.
C4_Redefinition ==
    Redefined =>
        IF Differs(hist.prevdef, hist.macro) THEN
            /\ status = "fatal"
            /\ diag = <<[kind |-> "RedefinitionMismatch",
                         at |-> hist.macro.name.str]>>
        ELSE
            /\ status = "running"
            /\ table = hist.before
            /\ ~Differs(table[hist.macro.name.str], hist.macro)

C4_Witness ==
    /\ Redefined
    /\ status = "fatal"
    /\ hist.prevdef.replacement = parse(<<" ", "1">>)
    /\ hist.macro.replacement = parse(<<"1", " ", "x">>)
    /\ hist.before[strX].replacement = parse(<<"0", "1">>)

\* C5: a registration that follows a completed registration, with the file
\* path unchanged and no builtin undefined in between, does not fail and
\* leaves the table as it was.
C5_RegisterIdempotent ==
    (hist.op = "register" /\ hist.was)
        => (status = "running" /\ table = hist.before)
====
